---------------------------- MODULE Spec2Model ----------------------------
(***************************************************************************)
(* A model of the spelling corrector of src/src/lib.rs.                    *)
(*                                                                         *)
(* A Rust `String`/`&str` is modelled as the sequence of its UTF-8 bytes,  *)
(* because `str::len` and the slices `&word[..i]` of edits1 count bytes.   *)
(* A character is the sequence of the bytes that encode it.  A `u32` is    *)
(* modelled with its full width as a pair of 16-bit halves (TLC's own      *)
(* integers are narrower than 2^32).                                       *)
(***************************************************************************)
EXTENDS Integers, Sequences, FiniteSets

(***************************************************************************)
(* Bounds of the model.                                                    *)
(***************************************************************************)
\* Longest text that is read: the number of items (see TextItems) in it.
MaxText == 3
\* Longest word handed to correction, in characters.
MaxWord == 2

(***************************************************************************)
(* u32 arithmetic (the value type of freqmap).                             *)
(***************************************************************************)
\* Width of the counts of freqmap: HashMap<String, u32>.
U32Bits == 32
Half == 2 ^ (U32Bits \div 2)

\* A natural number hi * Half + lo; it is a u32 iff hi < Half.
Num(h, l) == [hi |-> h, lo |-> l]
Zero == Num(0, 0)
One == Num(0, 1)
U32Max == Num(Half - 1, Half - 1)

\* Exact (mathematical) addition.
Add(a, b) ==
    LET s == a.lo + b.lo
    IN  Num(a.hi + b.hi + (s \div Half), s % Half)

FitsU32(x) == x.hi < Half
\* The value a wrapping u32 operation keeps.
WrapU32(x) == Num(x.hi % Half, x.lo)
Less(a, b) == a.hi < b.hi \/ (a.hi = b.hi /\ a.lo < b.lo)

(***************************************************************************)
(* Characters and strings.                                                 *)
(***************************************************************************)
LowerA == <<97>>
LowerB == <<98>>
UpperA == <<65>>
Space == <<32>>
\* U+00E9 (e with acute accent), two bytes in UTF-8.
EAcute == <<195, 169>>
\* U+00C9, its upper case.
UpperEAcute == <<195, 137>>

\* The string made of the characters cs, in order.
RECURSIVE Flatten(_)
Flatten(cs) == IF cs = <<>> THEN <<>> ELSE Head(cs) \o Flatten(Tail(cs))

\* str::is_char_boundary: index i (0-based) of s starts a character or ends s.
IsCharBoundary(s, i) ==
    \/ i = 0
    \/ i = Len(s)
    \/ i > 0 /\ i < Len(s) /\ ~(s[i + 1] >= 128 /\ s[i + 1] < 192)

\* Whether the slice &s[a..b] is taken without a panic.
SliceOK(s, a, b) ==
    a <= b /\ b <= Len(s) /\ IsCharBoundary(s, a) /\ IsCharBoundary(s, b)
\* The slice &s[a..b].
Slice(s, a, b) == SubSeq(s, a + 1, b)

\* The class \w of the regex crate, on the characters of the model.
IsWordChar(c) ==
    IF Len(c) = 1
    THEN \/ c[1] >= 48 /\ c[1] <= 57
         \/ c[1] >= 65 /\ c[1] <= 90
         \/ c[1] = 95
         \/ c[1] >= 97 /\ c[1] <= 122
    ELSE c \in {EAcute, UpperEAcute}

\* char::to_lowercase, on the characters of the model.
ToLowercaseChar(c) ==
    IF Len(c) = 1 /\ c[1] >= 65 /\ c[1] <= 90 THEN <<c[1] + 32>>
    ELSE IF c = UpperEAcute THEN EAcute
    ELSE c

\* str::to_lowercase of a sequence of characters, as one string.
ToLowercase(cs) == Flatten([k \in 1..Len(cs) |-> ToLowercaseChar(cs[k])])


(***************************************************************************)
(* The text read from `path`.                                              *)
(*                                                                         *)
(* A text is a sequence of items; the item [cs, n] stands for the          *)
(* characters cs written n times in a row.  An item is one character       *)
(* written once, or a word followed by a space written U32Max times: the   *)
(* second kind is what lets a text of the model hold 2^32 words.           *)
(***************************************************************************)
Item(cs, n) == [cs |-> cs, n |-> n]
Lit(c) == Item(<<c>>, One)

TextChars == {LowerA, UpperA, LowerB, Space, EAcute}
TextItems ==
    {Lit(c) : c \in TextChars}
        \cup {Item(<<c, Space>>, U32Max) : c \in {LowerA, LowerB}}

\* All sequences over S of length at most n.
SeqsUpTo(S, n) == UNION {[1..k -> S] : k \in 0..n}

Texts == SeqsUpTo(TextItems, MaxText)

VARIABLES
    overflow_checks,  \* the build: TRUE panics on integer overflow, FALSE wraps
    readable,         \* whether std::fs::read_to_string(path) succeeds
    text,             \* the text read_to_string(path) returns to with_alphabet;
                      \* empty once with_alphabet is over (it does not keep it)
    phase,            \* "new", "ready", "err", "panicked"
    alphabet,         \* SpellingCorrector::alphabet, a sequence of characters
    freqmap,          \* SpellingCorrector::freqmap, a function word -> u32
    word,             \* the argument of the last call of correction
    tier,             \* the tier candidates returned from in that call (0: none)
    cands,            \* the set candidates returned in that call
    pcalls,           \* the words p was invoked on in that call
    result            \* what that call returned

vars ==
    <<overflow_checks, readable, text, phase, alphabet, freqmap, word, tier,
      cands, pcalls, result>>

(***************************************************************************)
(* with_alphabet: the frequency model builder.                             *)
(***************************************************************************)
\* x - 1, for x > 0.
Pred(x) == IF x.lo > 0 THEN Num(x.hi, x.lo - 1) ELSE Num(x.hi - 1, Half - 1)

\* One left-to-right pass of the regex \w+ over the characters cs from index
\* i on.  st.cur is the run of word characters that is open, st.out the
\* matches found so far; each match found by this pass counts `times`.
RECURSIVE ScanChars(_, _, _, _)
ScanChars(cs, i, st, times) ==
    IF i > Len(cs) THEN st
    ELSE IF IsWordChar(cs[i])
    THEN ScanChars(cs, i + 1, [st EXCEPT !.cur = Append(st.cur, cs[i])], times)
    ELSE ScanChars(cs, i + 1,
            [cur |-> <<>>,
             out |-> IF st.cur = <<>> THEN st.out
                     ELSE Append(st.out, [run |-> st.cur, times |-> times])],
            times)

\* The pass over the items of a text from item k on.  The first copy of an
\* item continues the open run; each further copy starts after the space that
\* ends the one before it, and yields the same matches.
RECURSIVE ScanItems(_, _, _)
ScanItems(items, k, st) ==
    IF k > Len(items) THEN st
    ELSE LET first == ScanChars(items[k].cs, 1, st, One)
             rest == IF items[k].n = One THEN first
                     ELSE ScanChars(items[k].cs, 1, first, Pred(items[k].n))
         IN  ScanItems(items, k + 1, rest)

\* Regex::new(r"\w+")?.find_iter(&text): the maximal runs of word characters,
\* in order, each with the number of times it is matched in a row.
FindIter(items) ==
    LET st == ScanItems(items, 1, [cur |-> <<>>, out |-> <<>>])
    IN  IF st.cur = <<>> THEN st.out
        ELSE Append(st.out, [run |-> st.cur, times |-> One])

\* `*freqmap.entry(key).or_insert(0) += 1`, executed `times` times.  The
\* count is a u32: when it passes U32Max the build with overflow checks
\* panics and the build without them wraps.
Bump(b, key, times) ==
    LET old == IF key \in DOMAIN b.map THEN b.map[key] ELSE Zero
        new == Add(old, times)
    IN  IF b.panicked THEN b
        ELSE IF ~FitsU32(new) /\ overflow_checks
        THEN [b EXCEPT !.panicked = TRUE]
        ELSE [map |-> [w \in DOMAIN b.map \cup {key} |->
                         IF w = key THEN WrapU32(new) ELSE b.map[w]],
              panicked |-> FALSE]

\* The loop of with_alphabet over the matches ms from index k on.
RECURSIVE BuildLoop(_, _, _)
BuildLoop(ms, k, b) ==
    IF k > Len(ms) THEN b
    ELSE BuildLoop(ms, k + 1, Bump(b, ToLowercase(ms[k].run), ms[k].times))

EmptyMap == [w \in {} |-> Zero]

\* The table with_alphabet builds from a text, or the panic it ends in.
BuildFreqmap(items) ==
    BuildLoop(FindIter(items), 1, [map |-> EmptyMap, panicked |-> FALSE])

(***************************************************************************)
(* The corrector.                                                          *)
(***************************************************************************)
\* Mutant of AlphabetChars: self.alphabet.bytes(), one item per byte.
AlphabetBytes ==
    [k \in 1..Len(Flatten(alphabet)) |-> <<Flatten(alphabet)[k]>>]

\* self.alphabet.chars(): the characters of the alphabet, in order.
AlphabetChars == alphabet

Range(f) == {f[k] : k \in DOMAIN f}

\* `splits` of edits1: (&word[..i], &word[i..]) for every byte index
\* i in 0..=word.len().  SplitsOK: no slice of it panics.
SplitsOK(w) ==
    \A i \in 0..Len(w) : SliceOK(w, 0, i) /\ SliceOK(w, i, Len(w))
SplitL(w, i) == Slice(w, 0, i)
SplitR(w, i) == Slice(w, i, Len(w))

\* l + &r[1..] for the splits whose r is not empty, in order.
Deletes(w) ==
    [k \in 1..Len(w) |->
        SplitL(w, k - 1) \o Slice(SplitR(w, k - 1), 1, Len(w) - (k - 1))]
DeletesOK(w) ==
    \A i \in 0..(Len(w) - 1) : SliceOK(SplitR(w, i), 1, Len(w) - i)

\* l + &r[1..2] + &r[0..1] + &r[2..] for the splits with r.len() > 1.
Transposes(w) ==
    [k \in 1..(Len(w) - 1) |->
        LET l == SplitL(w, k - 1)
            r == SplitR(w, k - 1)
        IN  l \o Slice(r, 1, 2) \o Slice(r, 0, 1) \o Slice(r, 2, Len(r))]
TransposesOK(w) ==
    \A i \in 0..(Len(w) - 2) :
        LET r == SplitR(w, i)
        IN  SliceOK(r, 1, 2) /\ SliceOK(r, 0, 1) /\ SliceOK(r, 2, Len(r))

\* l + c + &r[1..] for the splits whose r is not empty and every character c
\* of the alphabet: the flat_map visits the splits in order and, for each, the
\* alphabet in order.
Replaces(w) ==
    LET a == AlphabetChars
    IN  [k \in 1..(Len(w) * Len(a)) |->
            LET i == (k - 1) \div Len(a)
                c == a[((k - 1) % Len(a)) + 1]
            IN  SplitL(w, i) \o c \o Slice(SplitR(w, i), 1, Len(w) - i)]
ReplacesOK(w) == AlphabetChars = <<>> \/ DeletesOK(w)

\* l + c + r for every split and every character c of the alphabet.
Inserts(w) ==
    LET a == AlphabetChars
    IN  [k \in 1..((Len(w) + 1) * Len(a)) |->
            LET i == (k - 1) \div Len(a)
                c == a[((k - 1) % Len(a)) + 1]
            IN  SplitL(w, i) \o c \o SplitR(w, i)]

\* Whether edits1(w) panics: `splits` is collected first, the four lazy
\* iterators are run by the final collect.
Edits1Panics(w) ==
    ~(SplitsOK(w) /\ DeletesOK(w) /\ TransposesOK(w) /\ ReplacesOK(w))

\* deletes.chain(transposes).chain(replaces).chain(inserts): the strings
\* edits1 generates, before they are collected into the HashSet.
Edits1Seq(w) == Deletes(w) \o Transposes(w) \o Replaces(w) \o Inserts(w)

\* edits1(w), when it does not panic.
Edits1(w) == Range(Edits1Seq(w))

\* edits2(w): edits1 of every element of edits1(w).  The Vec it returns is
\* only ever handed to known, which collects it into a HashSet, so the model
\* keeps the set of its elements.
Edits2Panics(w) ==
    Edits1Panics(w) \/ \E e \in Edits1(w) : Edits1Panics(e)
Edits2(w) == UNION {Edits1(e) : e \in Edits1(w)}

\* known(words): the words that are keys of freqmap.
Known(words) == {x \in words : x \in DOMAIN freqmap}

\* candidates(w): the set returned and the tier it comes from, or a panic.
CandOk(t, s) == [panicked |-> FALSE, tier |-> t, set |-> s]
CandPanic == [panicked |-> TRUE, tier |-> 0, set |-> {}]

\* Mutant of Candidates: the check of the word itself (k1) is left out.
CandidatesNoTier1(w) ==
    IF Edits1Panics(w) THEN CandPanic
    ELSE IF Known(Edits1(w)) # {} THEN CandOk(2, Known(Edits1(w)))
    ELSE IF Edits2Panics(w) THEN CandPanic
    ELSE IF Known(Edits2(w)) # {} THEN CandOk(3, Known(Edits2(w)))
    ELSE CandOk(4, {w})

\* Mutant of Candidates: edits2 is tried before edits1.
CandidatesFarthestFirst(w) ==
    IF Known({w}) # {} THEN CandOk(1, Known({w}))
    ELSE IF Edits2Panics(w) THEN CandPanic
    ELSE IF Known(Edits2(w)) # {} THEN CandOk(3, Known(Edits2(w)))
    ELSE IF Known(Edits1(w)) # {} THEN CandOk(2, Known(Edits1(w)))
    ELSE CandOk(4, {w})

\* Mutant of Candidates: the fallback is String::new(), not the word.
CandidatesEmptyFallback(w) ==
    IF Known({w}) # {} THEN CandOk(1, Known({w}))
    ELSE IF Edits1Panics(w) THEN CandPanic
    ELSE IF Known(Edits1(w)) # {} THEN CandOk(2, Known(Edits1(w)))
    ELSE IF Edits2Panics(w) THEN CandPanic
    ELSE IF Known(Edits2(w)) # {} THEN CandOk(3, Known(Edits2(w)))
    ELSE CandOk(4, {<<>>})

Candidates(w) ==
    IF Known({w}) # {} THEN CandOk(1, Known({w}))
    ELSE IF Edits1Panics(w) THEN CandPanic
    ELSE IF Known(Edits1(w)) # {} THEN CandOk(2, Known(Edits1(w)))
    ELSE IF Edits2Panics(w) THEN CandPanic
    ELSE IF Known(Edits2(w)) # {} THEN CandOk(3, Known(Edits2(w)))
    ELSE CandOk(4, {w})

\* The exact sum of the counts of the keys ks.
RECURSIVE SumOver(_)
SumOver(ks) ==
    IF ks = {} THEN Zero
    ELSE LET k == CHOOSE x \in ks : TRUE
         IN  Add(freqmap[k], SumOver(ks \ {k}))
ExactTotal == SumOver(DOMAIN freqmap)

\* self.freqmap.values().sum::<u32>(): panics on overflow in a build with
\* overflow checks, wraps in a build without.
SumPanics == overflow_checks /\ ~FitsU32(ExactTotal)
SumU32 == WrapU32(ExactTotal)

\* p(w): f64::from(self.freqmap[w]) / f64::from(sum).  The quotient of two
\* u32 is kept as the pair (num, den); the index panics on a missing key.
P(w) ==
    IF w \notin DOMAIN freqmap \/ SumPanics
    THEN [panicked |-> TRUE, num |-> Zero, den |-> Zero]
    ELSE [panicked |-> FALSE, num |-> freqmap[w], den |-> SumU32]

\* f64::partial_cmp of two quotients over the same denominator.  n / 0.0 is
\* NaN for n = 0 and +infinity otherwise; for den > 0 the f64 quotients of
\* distinct u32 numerators are distinct and ordered as the numerators are
\* (they differ by a relative 2^-32 at least, an f64 resolves 2^-53).
IsNaN(x) == x.den = Zero /\ x.num = Zero
PartialCmp(x, y) ==
    IF IsNaN(x) \/ IsNaN(y) THEN "None"
    ELSE IF x.den = Zero THEN "Equal"
    ELSE IF Less(x.num, y.num) THEN "Less"
    ELSE IF Less(y.num, x.num) THEN "Greater"
    ELSE "Equal"

\* Iterator::max_by over the candidates in the order `order`, from element i
\* on: reduce(|x, y| match compare(&x, &y) { Greater => x, _ => y }), with
\* compare = |a, b| self.p(a).partial_cmp(&self.p(b)).unwrap().
RECURSIVE MaxByFrom(_, _, _)
MaxByFrom(order, i, st) ==
    IF i > Len(order) \/ st.panicked THEN st
    ELSE LET a == st.best
             b == order[i]
         IN  IF P(a).panicked
             THEN [st EXCEPT !.panicked = TRUE, !.calls = @ \cup {a}]
             ELSE IF P(b).panicked \/ PartialCmp(P(a), P(b)) = "None"
             THEN [st EXCEPT !.panicked = TRUE, !.calls = @ \cup {a, b}]
             ELSE MaxByFrom(order, i + 1,
                    [best |-> IF PartialCmp(P(a), P(b)) = "Greater"
                              THEN a ELSE b,
                     calls |-> st.calls \cup {a, b},
                     panicked |-> FALSE])

\* Mutant of MaxBy: a fold that starts from the first element and compares it
\* with itself before going on.
MaxByFoldAll(order) ==
    MaxByFrom(order, 1, [best |-> order[1], calls |-> {}, panicked |-> FALSE])

MaxBy(order) ==
    MaxByFrom(order, 2, [best |-> order[1], calls |-> {}, panicked |-> FALSE])

\* The orders a HashSet<String> with the elements S may be iterated in.
Orders(S) ==
    {f \in [1..Cardinality(S) -> S] : \A i, j \in DOMAIN f : f[i] = f[j] => i = j}

(***************************************************************************)
(* The state machine.                                                      *)
(***************************************************************************)
WordChars == {LowerA, EAcute}
Words == {Flatten(cs) : cs \in SeqsUpTo(WordChars, MaxWord)}
\* The alphabets handed to with_alphabet.  (new(path) is with_alphabet with
\* the 26 letters a..z; the alphabets of the model are shorter ones.)
Alphabets == {<<LowerA, LowerB>>, <<LowerB, EAcute>>, <<>>}

NoResult == [tag |-> "none", val |-> <<>>]
Returned(s) == [tag |-> "ok", val |-> s]
Panicked == [tag |-> "panic", val |-> <<>>]

Init ==
    /\ overflow_checks \in BOOLEAN
    /\ readable \in BOOLEAN
    /\ text \in (IF readable THEN Texts ELSE {<<>>})
    /\ phase = "new"
    /\ alphabet = <<>>
    /\ freqmap = EmptyMap
    /\ word = <<>>
    /\ tier = 0
    /\ cands = {}
    /\ pcalls = {}
    /\ result = NoResult

\* SpellingCorrector::with_alphabet(path, a).
WithAlphabet(a) ==
    /\ phase = "new"
    /\ LET b == BuildFreqmap(text)
       IN  IF ~readable
           THEN phase' = "err" /\ UNCHANGED <<alphabet, freqmap>>
           ELSE IF b.panicked
           THEN phase' = "panicked" /\ UNCHANGED <<alphabet, freqmap>>
           ELSE phase' = "ready" /\ alphabet' = a /\ freqmap' = b.map
    /\ text' = <<>>
    /\ UNCHANGED <<overflow_checks, readable, word, tier, cands, pcalls, result>>

\* sc.correction(w).
Correction(w) ==
    /\ phase = "ready"
    /\ word' = w
    /\ LET c == Candidates(w)
       IN  IF c.panicked
           THEN /\ phase' = "panicked"
                /\ tier' = 0 /\ cands' = {} /\ pcalls' = {}
                /\ result' = Panicked
           ELSE /\ tier' = c.tier
                /\ cands' = c.set
                /\ \E order \in Orders(c.set) :
                     LET m == MaxBy(order)
                     IN  /\ pcalls' = m.calls
                         /\ result' = IF m.panicked THEN Panicked
                                      ELSE Returned(m.best)
                         /\ phase' = IF m.panicked THEN "panicked" ELSE "ready"
    /\ UNCHANGED <<overflow_checks, readable, text, alphabet, freqmap>>

Next ==
    \/ \E a \in Alphabets : WithAlphabet(a)
    \/ \E w \in Words : Correction(w)

Spec == Init /\ [][Next]_vars

(***************************************************************************)
(* Properties.                                                             *)
(***************************************************************************)
Keys == DOMAIN freqmap
Called == result.tag # "none"
ReturnedOk == result.tag = "ok"
\* a <= b
Leq(a, b) == ~Less(b, a)

\* C1: for every word w that is a key of the frequency table, correction(w)
\* returns exactly w, whatever the other counts and the alphabet are.
C1_KnownWordFixedPoint ==
    (Called /\ word \in Keys) => result = Returned(word)

\* C1, witness: correction returned for a known word while another key, one
\* edit away from it, has a greater count.
C1_Witness ==
    /\ ReturnedOk
    /\ word \in Keys
    /\ \E k \in Keys \ {word} :
         k \in Edits1(word) /\ Less(freqmap[word], freqmap[k])

\* C2: correction(word) never panics, for every word, alphabet and table,
\* words with characters of more than one byte included.  Stated on the
\* tables whose counts sum without overflow, where the overflow of C10 plays
\* no part.
C2_CorrectionNeverPanics ==
    (Called /\ FitsU32(ExactTotal)) => result.tag # "panic"

\* C3: for all words w, the empty string included, the string correction(w)
\* returns is not empty.
C3_ResultNonEmpty ==
    ReturnedOk => result.val # <<>>

\* C3, amended: for every non-empty word the string correction returns is not
\* empty; for the empty word it is empty exactly when candidates falls back to
\* tier 4 (no key within two edits of the empty word).
C3_EmptyOnlyForEmptyWord ==
    ReturnedOk => (result.val = <<>> <=> (word = <<>> /\ tier = 4))

\* C3, witness: correction returned for a word of one character, none of its
\* edits known although deleting its character gives the empty string.
C3_Witness ==
    /\ ReturnedOk
    /\ Len(word) = 1
    /\ tier = 4
    /\ <<>> \in Edits1(word)
    /\ result.val # <<>>

\* C4: candidates(word) is a strict four-tier waterfall and never empty: {word}
\* if word is a key; otherwise the known subset of edits1(word) if that is not
\* empty; otherwise the known subset of edits2(word) if that is not empty;
\* otherwise {word}.  A known word of edits2(word) is never returned when a
\* known word exists in edits1(word), unless it is in edits1(word) too.
C4_Waterfall ==
    tier >= 1 =>
        LET k2 == Edits1(word) \cap Keys
            k3 == Edits2(word) \cap Keys
        IN  /\ cands # {}
            /\ word \in Keys => (tier = 1 /\ cands = {word})
            /\ (word \notin Keys /\ k2 # {}) => (tier = 2 /\ cands = k2)
            /\ (word \notin Keys /\ k2 = {} /\ k3 # {}) =>
                 (tier = 3 /\ cands = k3)
            /\ (word \notin Keys /\ k2 = {} /\ k3 = {}) =>
                 (tier = 4 /\ cands = {word})
            /\ (word \notin Keys /\ k2 # {}) => cands \cap (k3 \ k2) = {}

\* C4, witness: candidates returned the known words one edit away although a
\* key two edits away has a greater count than each of them.
C4_Witness ==
    /\ tier = 2
    /\ \E k \in (Edits2(word) \cap Keys) \ cands :
         \A c \in cands : Less(freqmap[c], freqmap[k])

\* C5: correction(word) returns a member c of candidates(word) such that
\* count(c) >= count(d) for every other member d of candidates(word).
C5_ReturnsMaxCount ==
    ReturnedOk =>
        /\ result.val \in cands
        /\ \A d \in cands \ {result.val} :
             Leq(freqmap[d], freqmap[result.val])

\* C6: correction is deterministic: for a fixed table, alphabet and word every
\* call returns the same string, also when candidates tie.  Stated on the
\* tables whose counts sum without overflow, where the overflow of C10 plays
\* no part.
C6_Deterministic ==
    [][(ReturnedOk /\ result'.tag = "ok" /\ word' = word /\ FitsU32(ExactTotal))
         => result' = result]_vars

\* The number of times the lowercased run w is matched in the text t (exact).
RECURSIVE OccurrencesFrom(_, _, _)
OccurrencesFrom(ms, k, w) ==
    IF k > Len(ms) THEN Zero
    ELSE Add(IF ToLowercase(ms[k].run) = w THEN ms[k].times ELSE Zero,
             OccurrencesFrom(ms, k + 1, w))
Occurrences(t, w) == OccurrencesFrom(FindIter(t), 1, w)
LowercasedRuns(t) == {ToLowercase(m.run) : m \in Range(FindIter(t))}

\* C7: the table produced at construction has as keys exactly the distinct
\* lowercased maximal runs of word characters of the text, each mapped to the
\* number of times it occurs; no stored count is zero.
C7_TableCountsRuns ==
    [][(phase = "new" /\ phase' = "ready") =>
         /\ DOMAIN freqmap' = LowercasedRuns(text)
         /\ \A w \in DOMAIN freqmap' :
              freqmap'[w] = Occurrences(text, w) /\ freqmap'[w] # Zero]_vars

\* The bound of the spec on the number of strings edits1(w) generates.
Edits1Bound(w) ==
    Len(w) + (2 * Len(w) + 1) * Len(alphabet) + (Len(w) - 1)

\* The last call of correction ran edits1(word), and edits1 returned.
Edits1Ran == Called /\ word \notin Keys /\ ~Edits1Panics(word)

\* C8: for every word w, the empty word included, edits1(w) generates at most
\* len(w) + (2*len(w)+1)*|Alphabet| + (len(w)-1) strings before deduplication.
C8_Edits1SizeBound ==
    Edits1Ran => Len(Edits1Seq(word)) <= Edits1Bound(word)

\* C8, amended: for every non-empty word w, edits1(w) generates at most
\* len(w) + (2*len(w)+1)*|Alphabet| + (len(w)-1) strings before deduplication;
\* for the empty word it generates |Alphabet| strings (the insertions), one
\* more than that expression.
C8_Edits1SizeBoundNonEmpty ==
    Edits1Ran =>
        IF word = <<>>
        THEN Len(Edits1Seq(word)) = Len(alphabet)
        ELSE Len(Edits1Seq(word)) <= Edits1Bound(word)

\* C8, witness: edits1 ran on a word of two characters or more with an
\* alphabet that is not empty, and generated as many strings as the bound.
C8_Witness ==
    /\ Edits1Ran
    /\ Len(word) >= 2
    /\ alphabet # <<>>
    /\ Len(Edits1Seq(word)) = Edits1Bound(word)

\* C9: in every execution of correction, p is invoked only on keys of the
\* frequency table, also when candidates falls back to the unknown word.
C9_POnlyOnKeys ==
    pcalls \subseteq Keys

\* C9, witness: p was invoked in a call of correction that returned.
C9_Witness ==
    ReturnedOk /\ pcalls # {} /\ Cardinality(cands) >= 2

\* C10: the normalizer p computes is the exact sum of all counts: the u32 sum
\* never overflows or wraps, and 0 < count(word) <= total for the words p is
\* invoked on.
C10_NormalizerExact ==
    pcalls # {} =>
        /\ FitsU32(ExactTotal)
        /\ \A w \in pcalls \cap Keys :
             Less(Zero, freqmap[w]) /\ Leq(freqmap[w], SumU32)

=============================================================================
